---- MODULE Spec2Model ----
(***************************************************************************)
(* code2md: flatten the source files of a project directory into one       *)
(* Markdown document (src/code2md.py).                                     *)
(*                                                                         *)
(* Strings are sequences of one-character strings, so that the substring,  *)
(* suffix, replace and lower-casing operations of the program are computed *)
(* and not assumed.  A path is the sequence of its components, from the    *)
(* filesystem root.                                                        *)
(***************************************************************************)
EXTENDS Integers, Sequences, FiniteSets, TLC

VARIABLES
    pc,            \* position of the run inside main / the core functions
    args,          \* the parsed command line (argparse namespace)
    fs,            \* the filesystem: kind of the base path, its files and directories
    base_path,     \* main: base_path
    extensions,    \* main: extensions (set of strings)
    excludes,      \* main: excludes (list of strings)
    project_name,  \* main: project_name
    output_path,   \* main: output_path
    todo,          \* collect_files: directories os.walk has still to yield
    files,         \* collect_files: files (appended to, then sorted)
    enumerated,    \* paths os.walk listed or should_exclude was asked about
    markdown,      \* main: markdown, the composed document (sequence of blocks)
    written,       \* documents written to storage, in order
    exit_code,     \* -1 while running, else the exit status of the process
    run,           \* number of the current run over the same directory
    prev_files,    \* the sorted file list of the run before this one
    tree_asked     \* generate_tree's should_exclude calls: the path and the base of each

vars == <<pc, args, fs, base_path, extensions, excludes, project_name, output_path,
          todo, files, enumerated, markdown, written, exit_code, run, prev_files, tree_asked>>

-----------------------------------------------------------------------------
(* Bounds of the model. *)

\* at most this many candidate entries exist under the base directory
MaxFiles == 3

\* at most this many command-line options are given on one command line
MaxOpts == 2

\* the directory is processed at most this many times in a row
MaxRuns == 2

-----------------------------------------------------------------------------
(* Characters and strings. *)

\* the characters used, in code point order (Python compares strings by code point)
Ascii == << " ", "*", "-", ".", "/",
            "A", "B", "C", "D", "E", "F", "G", "H", "I", "J", "K", "L", "M",
            "N", "O", "P", "Q", "R", "S", "T", "U", "V", "W", "X", "Y", "Z",
            "\\", "_",
            "a", "b", "c", "d", "e", "f", "g", "h", "i", "j", "k", "l", "m",
            "n", "o", "p", "q", "r", "s", "t", "u", "v", "w", "x", "y", "z" >>

Ord(c) == CHOOSE i \in 1..Len(Ascii) : Ascii[i] = c

IsUpper(c) == Ord(c) >= Ord("A") /\ Ord(c) <= Ord("Z")

IsAlpha(c) == IsUpper(c) \/ (Ord(c) >= Ord("a") /\ Ord(c) <= Ord("z"))

\* str.lower(), one character
LowerChar(c) == IF IsUpper(c) THEN Ascii[Ord(c) - Ord("A") + Ord("a")] ELSE c

\* str.lower()
Lower(s) == [i \in 1..Len(s) |-> LowerChar(s[i])]

\* str.startswith(p)
StartsWith(s, p) == Len(p) <= Len(s) /\ SubSeq(s, 1, Len(p)) = p

\* str.endswith(p)
EndsWith(s, p) == Len(p) <= Len(s) /\ SubSeq(s, Len(s) - Len(p) + 1, Len(s)) = p

\* sub in s
Contains(s, sub) ==
    \E i \in 0..(Len(s) - Len(sub)) : SubSeq(s, i + 1, i + Len(sub)) = sub

\* s.replace(old, new) for a one-character old and a string new
RECURSIVE Replace(_, _, _)
Replace(s, old, new) ==
    IF s = <<>> THEN <<>>
    ELSE (IF Head(s) = old THEN new ELSE <<Head(s)>>) \o Replace(Tail(s), old, new)

\* the code points of a string, the key Python's comparison works on
Codes(s) == [i \in 1..Len(s) |-> Ord(s[i])]

\* a < b for two sequences of integers, lexicographically (tuple and str comparison)
LexLess(a, b) ==
    \/ Len(a) < Len(b) /\ SubSeq(b, 1, Len(a)) = a
    \/ \E i \in 1..Len(a) :
          /\ i <= Len(b)
          /\ SubSeq(a, 1, i - 1) = SubSeq(b, 1, i - 1)
          /\ a[i] < b[i]

\* list.sort(key=...) / sorted(key=...): stable, equal keys keep their order
RECURSIVE StableSort(_, _)
StableSort(s, key) ==
    IF s = <<>> THEN <<>>
    ELSE LET n    == Len(s)
             rest == StableSort(SubSeq(s, 1, n - 1), key)
             x    == s[n]
             \* x goes before the first element with a greater key, else last
             pos  == IF \E i \in 1..Len(rest) : LexLess(key[x], key[rest[i]])
                     THEN (CHOOSE i \in 1..Len(rest) :
                              /\ LexLess(key[x], key[rest[i]])
                              /\ \A j \in 1..(i - 1) : ~LexLess(key[x], key[rest[j]])) - 1
                     ELSE Len(rest)
         IN  SubSeq(rest, 1, pos) \o <<x>> \o SubSeq(rest, pos + 1, Len(rest))

\* the sequences that list each element of the set S once
Orders(S) ==
    {o \in [1..Cardinality(S) -> S] : \A i, j \in 1..Cardinality(S) : o[i] = o[j] => i = j}

\* the elements of a sequence
Range(s) == {s[i] : i \in 1..Len(s)}

RECURSIVE Flatten(_)
Flatten(ss) == IF ss = <<>> THEN <<>> ELSE Head(ss) \o Flatten(Tail(ss))

-----------------------------------------------------------------------------
(* Paths (pathlib.Path). *)

\* path.name
Name(path) == path[Len(path)]

\* path.parent
Parent(path) == SubSeq(path, 1, Len(path) - 1)

\* path is base or lies under it
IsUnder(path, base) == Len(base) <= Len(path) /\ SubSeq(path, 1, Len(base)) = base

\* path.relative_to(base)
RelativeTo(path, base) == SubSeq(path, Len(base) + 1, Len(path))

\* str(rel_path): the components joined by the separator; "." for the empty path
RECURSIVE Join(_)
Join(parts) ==
    IF parts = <<>> THEN <<>>
    ELSE IF Len(parts) = 1 THEN parts[1]
    ELSE parts[1] \o <<"/">> \o Join(Tail(parts))

Str(rel) == IF rel = <<>> THEN <<".">> ELSE Join(rel)

\* path.suffix: from the last dot of the name, unless that dot is its first or last character
Suffix(path) ==
    LET name == Name(path)
        dots == {i \in 1..Len(name) : name[i] = "."}
    IN  IF dots = {} THEN <<>>
        ELSE LET i == CHOOSE d \in dots : \A e \in dots : e <= d
             IN  IF 1 < i /\ i < Len(name) THEN SubSeq(name, i, Len(name)) ELSE <<>>

-----------------------------------------------------------------------------
(* Static tables. *)

\* PROJECT_TYPES[name]["extensions"], for the project types the model's command lines name
PROJECT_TYPES ==
    [python |-> {<<".", "p", "y">>, <<".", "p", "y", "i">>, <<".", "p", "y", "w">>},
     docs   |-> {<<".", "m", "d">>, <<".", "r", "s", "t">>, <<".", "t", "x", "t">>, <<".", "a", "d", "o", "c">>}]

DEFAULT_EXCLUDES == <<
    <<"n", "o", "d", "e", "_", "m", "o", "d", "u", "l", "e", "s">>,
    <<"v", "e", "n", "d", "o", "r">>,
    <<"p", "a", "c", "k", "a", "g", "e", "s">>,
    <<".", "p", "u", "b", "-", "c", "a", "c", "h", "e">>,
    <<"_", "_", "p", "y", "c", "a", "c", "h", "e", "_", "_">>,
    <<".", "p", "y", "t", "e", "s", "t", "_", "c", "a", "c", "h", "e">>,
    <<".", "m", "y", "p", "y", "_", "c", "a", "c", "h", "e">>,
    <<".", "r", "u", "f", "f", "_", "c", "a", "c", "h", "e">>,
    <<"v", "e", "n", "v">>,
    <<".", "v", "e", "n", "v">>,
    <<"e", "n", "v">>,
    <<".", "e", "n", "v">>,
    <<"*", ".", "e", "g", "g", "-", "i", "n", "f", "o">>,
    <<"d", "i", "s", "t">>,
    <<"b", "u", "i", "l", "d">>,
    <<"o", "u", "t">>,
    <<"t", "a", "r", "g", "e", "t">>,
    <<"b", "i", "n">>,
    <<"o", "b", "j">>,
    <<".", "i", "d", "e", "a">>,
    <<".", "v", "s", "c", "o", "d", "e">>,
    <<".", "v", "s">>,
    <<"*", ".", "s", "w", "p">>,
    <<"*", ".", "s", "w", "o">>,
    <<".", "g", "i", "t">>,
    <<".", "s", "v", "n">>,
    <<".", "h", "g">>,
    <<".", "D", "S", "_", "S", "t", "o", "r", "e">>,
    <<"T", "h", "u", "m", "b", "s", ".", "d", "b">>,
    <<"*", ".", "l", "o", "g">>,
    <<"l", "o", "g", "s">>,
    <<"t", "m", "p">>,
    <<"t", "e", "m", "p">>,
    <<".", "t", "m", "p">>,
    <<"c", "o", "v", "e", "r", "a", "g", "e">>,
    <<".", "c", "o", "v", "e", "r", "a", "g", "e">>,
    <<"h", "t", "m", "l", "c", "o", "v">>,
    <<".", "t", "o", "x">>,
    <<".", "n", "o", "x">> >>

-----------------------------------------------------------------------------
(* The filesystem.  fs.kind says what the base path is ("dir", "file" or   *)
(* "missing"); fs.files and fs.dirs are the regular files and the empty    *)
(* directories below it, as absolute paths.  Every prefix of an entry is a *)
(* directory.                                                              *)

BaseName == <<"w", ".", "p">>

\* Path(args.directory).resolve()
BaseDir == <<BaseName>>

\* every entry below a directory
Under(dir) ==
    UNION {{SubSeq(p, 1, n) : n \in (Len(dir) + 1)..Len(p)} :
              p \in {q \in fs.files \cup fs.dirs : IsUnder(q, dir)}}

\* path.is_file()
IsFile(path) == path \in fs.files

\* path.is_dir()
IsDir(path) == path \notin fs.files /\ \E p \in fs.files \cup fs.dirs : IsUnder(p, path)

\* the entries of a directory (os.scandir, Path.iterdir), as a set
Children(dir) == {p \in Under(dir) : Len(p) = Len(dir) + 1}

\* item.rglob("*"): every entry below a directory
RGlob(dir) == Under(dir)

-----------------------------------------------------------------------------
(* should_exclude *)

\* one pass of the loop over the patterns: does this pattern exclude the path?
ExcludedBy(exclude, path, base) ==
    LET rel_path   == RelativeTo(path, base)
        path_parts == Range(rel_path)
        path_name  == Name(path)
    IN  IF StartsWith(exclude, <<"*">>)
        THEN EndsWith(path_name, Tail(exclude))
        ELSE \/ exclude \in path_parts
             \/ path_name = exclude
             \/ Contains(Str(rel_path), exclude)

should_exclude(path, excl, base) ==
    \E i \in 1..Len(excl) : ExcludedBy(excl[i], path, base)

-----------------------------------------------------------------------------
(* collect_files *)

\* the file survives the two tests of the inner loop
KeepsFile(filepath, exts, excl, base) ==
    /\ ~should_exclude(filepath, excl, base)
    /\ Lower(Suffix(filepath)) \in exts

\* PruneDirs changed to leave the list of subdirectories as os.walk gave it
PruneDirs_KeepAll(dirs, excl, base) == dirs

\* dirs[:] = [d for d in dirs if not should_exclude(root_path / d, excludes, base_path)]
PruneDirs(dirs, excl, base) ==
    SelectSeq(dirs, LAMBDA d : ~should_exclude(d, excl, base))

\* the sort key of line 272
SortKey(filepath, base) == Codes(Lower(Str(RelativeTo(filepath, base))))

\* one iteration of the loop over os.walk: the directory os.walk yields next, its
\* entries in the order the operating system lists them
WalkDir ==
    /\ pc = "collect"
    /\ todo # <<>>
    /\ LET root_path == Head(todo)
           listed    == Children(root_path)
       IN  \E dirs \in Orders({p \in listed : IsDir(p)}),
              filenames \in Orders({p \in listed : ~IsDir(p)}) :
                /\ todo' = PruneDirs(dirs, excludes, base_path) \o Tail(todo)
                /\ files' = files \o SelectSeq(filenames,
                               LAMBDA f : KeepsFile(f, extensions, excludes, base_path))
                /\ enumerated' = enumerated \cup listed
    /\ UNCHANGED <<pc, args, fs, base_path, extensions, excludes, project_name,
                   output_path, markdown, written, exit_code, run, prev_files, tree_asked>>

\* files.sort(key=...); return files
SortFiles ==
    /\ pc = "collect"
    /\ todo = <<>>
    /\ files' = StableSort(files, [f \in Range(files) |-> SortKey(f, base_path)])
    /\ pc' = "collected"
    /\ UNCHANGED <<args, fs, base_path, extensions, excludes, project_name, output_path,
                   todo, enumerated, markdown, written, exit_code, run, prev_files, tree_asked>>

-----------------------------------------------------------------------------
(* generate_tree.  A line is a record: the prefix (a sequence of indentation *)
(* units), the connector, the name, and whether the directory marker "/"     *)
(* follows.  The box-drawing glyphs are written in ASCII here.               *)

LastConnector == "\\-- "
MidConnector  == "|-- "
LastIndent    == "    "
MidIndent     == "|   "

\* base_path.iterdir(), in the order the operating system lists the entries: by
\* name, ascending or descending (the order is not specified)
IterDir(dir, scan) ==
    LET kids == Children(dir)
        key  == [p \in kids |-> Codes(Name(p))]
        asc  == CHOOSE o \in Orders(kids) :
                    \A i \in 1..(Len(o) - 1) : LexLess(key[o[i]], key[o[i + 1]])
    IN  IF scan = "asc" THEN asc ELSE [i \in 1..Len(asc) |-> asc[Len(asc) + 1 - i]]

\* sorted(base_path.iterdir(), key=lambda p: (not p.is_dir(), p.name.lower()))
SortedItems(dir, scan) ==
    LET items == IterDir(dir, scan)
    IN  StableSort(items, [p \in Range(items) |->
                       <<IF IsDir(p) THEN 0 ELSE 1>> \o Codes(Lower(Name(p)))])

\* base_path.parent if prefix else base_path
ExcludeBase(dir, prefix) == IF prefix # <<>> THEN Parent(dir) ELSE dir

\* the filter loop of lines 288-294
FilteredItems(dir, exts, excl, prefix, scan) ==
    SelectSeq(SortedItems(dir, scan),
              LAMBDA item : /\ ~should_exclude(item, excl, ExcludeBase(dir, prefix))
                            /\ ~(IsFile(item) /\ Lower(Suffix(item)) \notin exts))

\* has_relevant of lines 302-306
HasRelevant(item, dir, exts, excl, prefix) ==
    \E f \in RGlob(item) :
        /\ IsFile(f)
        /\ ~should_exclude(f, excl, ExcludeBase(dir, prefix))
        /\ Lower(Suffix(f)) \in exts

RECURSIVE generate_tree(_, _, _, _, _)
generate_tree(dir, exts, excl, prefix, scan) ==
    LET filtered_items == FilteredItems(dir, exts, excl, prefix, scan)
        Render(i) ==
            LET item      == filtered_items[i]
                is_last   == i = Len(filtered_items)
                connector == IF is_last THEN LastConnector ELSE MidConnector
                extension == IF is_last THEN LastIndent ELSE MidIndent
            IN  IF IsDir(item)
                THEN IF ~HasRelevant(item, dir, exts, excl, prefix)
                     THEN <<>>
                     ELSE <<[prefix |-> prefix, connector |-> connector,
                             name |-> Name(item), slash |-> TRUE]>>
                          \o generate_tree(item, exts, excl, prefix \o <<extension>>, scan)
                ELSE <<[prefix |-> prefix, connector |-> connector,
                        name |-> Name(item), slash |-> FALSE]>>
    IN  Flatten([i \in 1..Len(filtered_items) |-> Render(i)])

\* the calls of should_exclude that generate_tree is certain to make, each with the
\* path asked about and the base it is made relative to: one per listed entry
\* (line 290), and one per file below a directory found to hold nothing relevant
\* (line 305, where any() stops at no earlier file)
RECURSIVE tree_calls(_, _, _, _, _)
tree_calls(dir, exts, excl, prefix, scan) ==
    LET filtered_items == FilteredItems(dir, exts, excl, prefix, scan)
        base           == ExcludeBase(dir, prefix)
        is_last(i)     == i = Len(filtered_items)
        shown          == {i \in 1..Len(filtered_items) :
                              /\ IsDir(filtered_items[i])
                              /\ HasRelevant(filtered_items[i], dir, exts, excl, prefix)}
        dropped        == {i \in 1..Len(filtered_items) :
                              /\ IsDir(filtered_items[i])
                              /\ ~HasRelevant(filtered_items[i], dir, exts, excl, prefix)}
    IN  {[path |-> p, base |-> base] : p \in Children(dir)}
        \cup UNION {{[path |-> f, base |-> base] :
                        f \in {g \in RGlob(filtered_items[i]) : IsFile(g)}} : i \in dropped}
        \cup UNION {tree_calls(filtered_items[i], exts, excl,
                               prefix \o <<IF is_last(i) THEN LastIndent ELSE MidIndent>>,
                               scan) : i \in shown}

-----------------------------------------------------------------------------
(* generate_markdown.  The document is its sequence of blocks; the contents  *)
(* and syntax tags of the file sections, read by collaborators, are left out. *)

\* Anchor changed to drop the underscores and to keep the letter case
Anchor_DropUnderscoreKeepCase(rel_path) ==
    Replace(Replace(Replace(Replace(Str(rel_path), "/", <<>>), "\\", <<>>),
                    ".", <<>>), "_", <<>>)

\* the anchor of line 360
Anchor(rel_path) ==
    Lower(Replace(Replace(Replace(Replace(Str(rel_path), "/", <<>>), "\\", <<>>),
                          ".", <<>>), "_", <<"-">>))

generate_markdown(base, fileseq, exts, excl, name, scan) ==
    << [kind |-> "header", title |-> name, base |-> base, count |-> Len(fileseq)],
       [kind |-> "toc",
        entries |-> [i \in 1..Len(fileseq) |->
                        [rel_path |-> RelativeTo(fileseq[i], base),
                         anchor   |-> Anchor(RelativeTo(fileseq[i], base))]]],
       [kind |-> "tree", root |-> name,
        lines |-> generate_tree(base, exts, excl, <<>>, scan)],
       [kind |-> "files",
        sections |-> [i \in 1..Len(fileseq) |-> RelativeTo(fileseq[i], base)]] >>

ScanOrders == {"asc", "desc"}

\* markdown = generate_markdown(base_path, files, extensions, excludes, project_name)
Compose ==
    /\ pc = "collected"
    /\ \E scan \in ScanOrders :
          /\ markdown' = generate_markdown(base_path, files, extensions, excludes,
                                           project_name, scan)
          /\ tree_asked' = tree_calls(base_path, extensions, excludes, <<>>, scan)
    /\ pc' = "composed"
    /\ UNCHANGED <<args, fs, base_path, extensions, excludes, project_name, output_path,
                   todo, files, enumerated, written, exit_code, run, prev_files>>

-----------------------------------------------------------------------------
(* The core functions applied to a directory tree, an extension set and an  *)
(* exclude list: collect_files, then generate_markdown (and with it          *)
(* generate_tree), then both once more on the unchanged tree.                *)

\* the entries a tree is drawn from, relative to the base directory
CoreFiles == {<<<<"X", ".", "p", "y">>>>,
              <<<<"x", ".", "p", "y">>>>,
              <<<<"a">>, <<"x", "_", "y", ".", "p", "y">>>>,
              <<<<"a">>, <<"b">>, <<"c", ".", "p", "y">>>>,
              <<<<"a">>, <<"b">>, <<"y", ".", "p", "y">>>>,
              <<<<"a">>, <<"t", ".", "t", "m", "p">>, <<"z", ".", "p", "y">>>>,
              <<<<"d", "-", "e">>, <<"r", "\\", "s", ".", "t", "x", "t">>>>}

CoreEmptyDirs == {<<<<"e">>>>}

CoreExtensionSets == {{<<".", "p", "y">>}, {<<".", "p", "y">>, <<".", "t", "x", "t">>}}

CoreExcludeLists == {<<>>,
                     <<<<"*", ".", "t", "m", "p">>>>,
                     <<<<"a", "/", "b", "/", "c">>>>,
                     <<<<"b">>>>,
                     <<<<"a">>>>,
                     <<<<"*", ".", "t", "m", "p">>, <<"a", "/", "b", "/", "c">>>>}

Abs(rel) == BaseDir \o rel

NoArgs == [list_types |-> FALSE, types |-> <<>>, extensions |-> <<>>, excludes |-> <<>>,
           output |-> <<>>, name |-> <<>>, no_tree |-> FALSE,
           no_default_excludes |-> FALSE]

InitCore ==
    /\ pc = "collect"
    /\ args = NoArgs
    /\ \E F \in SUBSET CoreFiles, D \in SUBSET CoreEmptyDirs :
          /\ Cardinality(F) + Cardinality(D) <= MaxFiles
          /\ fs = [kind |-> "dir", files |-> {Abs(f) : f \in F}, dirs |-> {Abs(d) : d \in D}]
    /\ base_path = BaseDir
    /\ extensions \in CoreExtensionSets
    /\ excludes \in CoreExcludeLists
    /\ project_name = BaseName
    /\ output_path = <<>>
    /\ todo = <<BaseDir>>
    /\ files = <<>>
    /\ enumerated = {}
    /\ markdown = <<>>
    /\ written = <<>>
    /\ exit_code = -1
    /\ run = 1
    /\ prev_files = <<>>
    /\ tree_asked = {}

\* the same call of collect_files again, on the unchanged tree
CollectAgain ==
    /\ pc = "composed"
    /\ run < MaxRuns
    /\ pc' = "collect"
    /\ run' = run + 1
    /\ prev_files' = files
    /\ todo' = <<base_path>>
    /\ files' = <<>>
    /\ markdown' = <<>>
    /\ tree_asked' = {}
    /\ UNCHANGED <<args, fs, base_path, extensions, excludes, project_name, output_path,
                   enumerated, written, exit_code>>

NextCore == WalkDir \/ SortFiles \/ Compose \/ CollectAgain

SpecCore == InitCore /\ [][NextCore]_vars

-----------------------------------------------------------------------------
(* Reading the rendered tree back: the depth of a line is the length of its  *)
(* prefix, its parent the nearest earlier line one level up.                 *)

TreeLines == IF markdown = <<>> THEN <<>> ELSE markdown[3].lines

Depth(i) == Len(TreeLines[i].prefix)

RECURSIVE LinePath(_)
LinePath(i) ==
    IF Depth(i) = 0 THEN <<TreeLines[i].name>>
    ELSE LET up == CHOOSE j \in 1..(i - 1) :
                       /\ Depth(j) = Depth(i) - 1
                       /\ \A k \in (j + 1)..(i - 1) : Depth(k) >= Depth(i)
         IN  LinePath(up) \o <<TreeLines[i].name>>

TreeLeafPaths == {Abs(LinePath(i)) : i \in {j \in 1..Len(TreeLines) : ~TreeLines[j].slash}}

\* no later line of the same directory level follows line i
IsLastRendered(i) ==
    ~\E j \in (i + 1)..Len(TreeLines) :
        /\ Depth(j) = Depth(i)
        /\ \A k \in (i + 1)..(j - 1) : Depth(k) > Depth(i)

\* the lines directly below the directory line i
ChildLines(i) ==
    {j \in (i + 1)..Len(TreeLines) :
        /\ Depth(j) = Depth(i) + 1
        /\ \A k \in (i + 1)..j : Depth(k) > Depth(i)}

-----------------------------------------------------------------------------
(* Claims about the core functions, checked under SpecCore. *)

\* C1: the set of file paths collect_files returns equals the set of file leaf
\* paths in the lines generate_tree produces, for every tree and every
\* (extensions, excludes) pair.
C1_CollectEqualsTreeLeaves ==
    pc = "composed" => Range(files) = TreeLeafPaths

\* C2: generate_tree emits a line for a directory only if a file the Collector
\* keeps lies under it.
C2_DirLineHasKeptFile ==
    pc = "composed" =>
        \A i \in 1..Len(TreeLines) :
            TreeLines[i].slash =>
                \E f \in Range(files) :
                    IsUnder(f, Abs(LinePath(i))) /\ f # Abs(LinePath(i))

\* C3: collect_files prunes an excluded subdirectory before descending: nothing
\* below a directory that should_exclude excludes is ever listed or tested by
\* the walk, at any depth.
C3_PrunedNeverEnumerated ==
    \A p \in enumerated :
        \A n \in (Len(base_path) + 1)..(Len(p) - 1) :
            ~should_exclude(SubSeq(p, 1, n), excludes, base_path)

\* C3 witness: the walk has ended after meeting an excluded directory that has entries.
C3_Witness ==
    /\ pc = "collected"
    /\ \E d \in enumerated :
          /\ IsDir(d)
          /\ should_exclude(d, excludes, base_path)
          /\ \E f \in fs.files : IsUnder(f, d) /\ Len(f) > Len(d) + 1

\* C4: collect_files run twice on an unchanged tree with the same (extensions,
\* excludes) returns the identical ordered sequence, whatever order the walk
\* lists the entries in.
C4_SameOrderedSequence ==
    (pc = "collected" /\ run > 1) => files = prev_files

\* the characters of s that are not in the set drop
RECURSIVE Without(_, _)
Without(s, drop) ==
    IF s = <<>> THEN <<>>
    ELSE (IF Head(s) \in drop THEN <<>> ELSE <<Head(s)>>) \o Without(Tail(s), drop)

TocEntries == IF markdown = <<>> THEN <<>> ELSE markdown[2].entries

\* C6, as stated: the anchor of each file is its relative path string with every
\* path separator, every dot and every underscore removed, then lower-cased.
C6_AnchorRemovesUnderscores ==
    \A i \in 1..Len(TocEntries) :
        TocEntries[i].anchor =
            Lower(Without(Str(TocEntries[i].rel_path), {"/", "\\", ".", "_"}))

\* C6, amended: the anchor of each file is its relative path string with every
\* "/", every "\" and every dot removed and every underscore replaced by a
\* hyphen, then lower-cased; no other character is changed.
C6_AnchorHyphenForUnderscore ==
    \A i \in 1..Len(TocEntries) :
        LET s    == Str(TocEntries[i].rel_path)
            kept == Without(s, {"/", "\\", "."})
        IN  TocEntries[i].anchor =
                [k \in 1..Len(kept) |-> IF kept[k] = "_" THEN "-" ELSE LowerChar(kept[k])]

\* C6 witness: a document lists a file whose relative path holds a separator, a
\* dot and an underscore, and another with an upper-case letter or a backslash.
C6_Witness ==
    /\ pc = "composed"
    /\ \E i, j \in 1..Len(TocEntries) :
          LET s == Str(TocEntries[i].rel_path)
              t == Str(TocEntries[j].rel_path)
          IN  /\ Contains(s, <<"_">>) /\ Contains(s, <<"/">>) /\ Contains(s, <<".">>)
              /\ \/ \E k \in 1..Len(t) : IsUpper(t[k])
                 \/ Contains(t, <<"\\">>)

\* C8: every exclusion decision of generate_tree, at every recursion depth, is
\* should_exclude with the path taken relative to the base path of the first call.
C8_TreeExcludesAgainstTopBase ==
    pc = "composed" => \A c \in tree_asked : c.base = base_path

\* C9: at every level of the tree the last line rendered among the siblings has
\* the last-sibling connector and four spaces before its descendants, and every
\* earlier one the other connector and the bar indentation.
C9_LastRenderedGetsLastConnector ==
    pc = "composed" =>
        \A i \in 1..Len(TreeLines) :
            /\ TreeLines[i].connector =
                   (IF IsLastRendered(i) THEN LastConnector ELSE MidConnector)
            /\ \A j \in ChildLines(i) :
                   TreeLines[j].prefix = TreeLines[i].prefix \o
                       <<IF IsLastRendered(i) THEN LastIndent ELSE MidIndent>>

-----------------------------------------------------------------------------
(* main: one run of the command, and the same command run again.  Type     *)
(* names stand for themselves after strip() and lower().                   *)

\* "".join(c if c.isalnum() or c in "-_" else "_" for c in project_name)
SafeName(name) ==
    [i \in 1..Len(name) |->
        IF IsAlpha(name[i]) \/ name[i] \in {"-", "_"} THEN name[i] ELSE "_"]

\* the extensions of lines 512-527
ResolveExtensions(a) ==
    UNION {PROJECT_TYPES[a.types[i]] : i \in 1..Len(a.types)}
    \cup {Lower(IF StartsWith(a.extensions[i], <<".">>)
                THEN a.extensions[i]
                ELSE <<".">> \o a.extensions[i]) : i \in 1..Len(a.extensions)}

\* the excludes of lines 530-531
ResolveExcludes(a) ==
    (IF a.no_default_excludes THEN <<>> ELSE DEFAULT_EXCLUDES) \o a.excludes

\* args.name or base_path.name
ResolveName(a, base) == IF a.name # <<>> THEN a.name ELSE Name(base)

\* the output path of lines 537-541
ResolveOutput(a, base) ==
    IF a.output # <<>> THEN a.output
    ELSE base \o <<SafeName(ResolveName(a, base)) \o <<"_", "c", "o", "d", "e", ".", "m", "d">>>>

UnknownType(a) == \E i \in 1..Len(a.types) : a.types[i] \notin DOMAIN PROJECT_TYPES

Exit(code) ==
    /\ pc' = "exit"
    /\ exit_code' = code
    /\ UNCHANGED <<args, fs, base_path, extensions, excludes, project_name, output_path,
                   todo, files, enumerated, markdown, written, run, prev_files, tree_asked>>

\* if args.list_types: list_types(); sys.exit(0)
ListTypes ==
    /\ pc = "start"
    /\ args.list_types
    /\ Exit(0)

\* parser.error(...): neither --type nor --ext
UsageError ==
    /\ pc = "start"
    /\ ~args.list_types
    /\ args.types = <<>> /\ args.extensions = <<>>
    /\ Exit(2)

\* if not base_path.exists(): sys.exit(1)
BaseMissing ==
    /\ pc = "start"
    /\ ~args.list_types
    /\ ~(args.types = <<>> /\ args.extensions = <<>>)
    /\ fs.kind = "missing"
    /\ Exit(1)

\* if not base_path.is_dir(): sys.exit(1)
BaseNotDir ==
    /\ pc = "start"
    /\ ~args.list_types
    /\ ~(args.types = <<>> /\ args.extensions = <<>>)
    /\ fs.kind = "file"
    /\ Exit(1)

\* if type_name not in PROJECT_TYPES: sys.exit(1)
TypeError ==
    /\ pc = "start"
    /\ ~args.list_types
    /\ ~(args.types = <<>> /\ args.extensions = <<>>)
    /\ fs.kind = "dir"
    /\ UnknownType(args)
    /\ Exit(1)

\* lines 503-557: the configuration is resolved and collect_files is called
Configure ==
    /\ pc = "start"
    /\ ~args.list_types
    /\ ~(args.types = <<>> /\ args.extensions = <<>>)
    /\ fs.kind = "dir"
    /\ ~UnknownType(args)
    /\ base_path' = BaseDir
    /\ extensions' = ResolveExtensions(args)
    /\ excludes' = ResolveExcludes(args)
    /\ project_name' = ResolveName(args, BaseDir)
    /\ output_path' = ResolveOutput(args, BaseDir)
    /\ todo' = <<BaseDir>>
    /\ files' = <<>>
    /\ pc' = "collect"
    /\ UNCHANGED <<args, fs, enumerated, markdown, written, exit_code, run, prev_files,
                   tree_asked>>

\* if not files: sys.exit(1)
NothingFound ==
    /\ pc = "collected"
    /\ files = <<>>
    /\ Exit(1)

\* Generate changed to go on without the test for an empty file list
Generate_NoEmptyCheck == Compose

\* lines 563-571: files were found, the document is generated
Generate ==
    /\ files # <<>>
    /\ Compose

\* output_path.write_text(markdown, encoding="utf-8"), the statistics, exit status 0
WriteOutput ==
    /\ pc = "composed"
    /\ written' = Append(written, [path |-> output_path, text |-> markdown])
    /\ fs' = IF IsUnder(output_path, base_path)
             THEN [fs EXCEPT !.files = @ \cup {output_path}]
             ELSE fs
    /\ pc' = "exit"
    /\ exit_code' = 0
    /\ UNCHANGED <<args, base_path, extensions, excludes, project_name, output_path,
                   todo, files, enumerated, markdown, run, prev_files, tree_asked>>

\* the same command line once more, on the directory the run before left behind
RunAgain ==
    /\ pc = "exit"
    /\ exit_code = 0
    /\ Len(written) = run
    /\ run < MaxRuns
    /\ pc' = "start"
    /\ run' = run + 1
    /\ prev_files' = files
    /\ exit_code' = -1
    /\ files' = <<>>
    /\ todo' = <<>>
    /\ markdown' = <<>>
    /\ tree_asked' = {}
    /\ UNCHANGED <<args, fs, base_path, extensions, excludes, project_name, output_path,
                   enumerated, written>>

\* the entries of the directory the command is run on
MainFiles == {<<<<"x", ".", "p", "y">>>>, <<<<"a">>, <<"x", ".", "p", "y">>>>, <<<<"n", ".", "m", "d">>>>}

\* an --output outside the base directory
OutsidePath == <<<<"o", ".", "m", "d">>>>

OptionCount(a) ==
    Cardinality({f \in DOMAIN a : a[f] # NoArgs[f]})

CommandLines ==
    {a \in [list_types : BOOLEAN,
            types : {<<>>, <<"python">>, <<"docs">>, <<"nope">>},
            extensions : {<<>>, <<<<"m", "d">>>>},
            excludes : {<<>>, <<<<"a">>>>},
            output : {<<>>, OutsidePath},
            name : {<<>>, <<"T", " ", "x">>},
            no_tree : BOOLEAN,
            no_default_excludes : BOOLEAN] : OptionCount(a) <= MaxOpts}

Init ==
    /\ pc = "start"
    /\ args \in CommandLines
    /\ \/ \E F \in SUBSET MainFiles :
             /\ Cardinality(F) <= MaxFiles
             /\ fs = [kind |-> "dir", files |-> {Abs(f) : f \in F}, dirs |-> {}]
       \/ fs \in {[kind |-> k, files |-> {}, dirs |-> {}] : k \in {"missing", "file"}}
    /\ base_path = <<>>
    /\ extensions = {}
    /\ excludes = <<>>
    /\ project_name = <<>>
    /\ output_path = <<>>
    /\ todo = <<>>
    /\ files = <<>>
    /\ enumerated = {}
    /\ markdown = <<>>
    /\ written = <<>>
    /\ exit_code = -1
    /\ run = 1
    /\ prev_files = <<>>
    /\ tree_asked = {}

Next ==
    \/ ListTypes \/ UsageError \/ BaseMissing \/ BaseNotDir \/ TypeError
    \/ Configure \/ WalkDir \/ SortFiles \/ NothingFound \/ Generate \/ WriteOutput
    \/ RunAgain

Spec == Init /\ [][Next]_vars

-----------------------------------------------------------------------------
(* Claims about a whole run, checked under Spec. *)

\* one of the configuration errors main tests for
ConfigError ==
    /\ ~args.list_types
    /\ \/ args.types = <<>> /\ args.extensions = <<>>
       \/ fs.kind # "dir"
       \/ UnknownType(args)

\* C5: a run goes validation, traversal, composition, write, and every fatal
\* condition stops it before the next phase: a configuration error ends the run
\* with a non-zero exit before collect_files is called, an empty collection ends
\* it with a non-zero exit before the document is composed or written, and a
\* non-zero exit leaves no written document.
C5_FatalStopsBeforeNextPhase ==
    /\ ConfigError =>
          /\ pc \in {"start", "exit"}
          /\ pc = "exit" => exit_code \in {1, 2}
          /\ enumerated = {} /\ tree_asked = {} /\ markdown = <<>> /\ written = <<>>
    /\ pc \in {"start", "collect", "collected"} =>
          /\ markdown = <<>>
          /\ Len(written) = run - 1
    /\ pc = "composed" =>
          /\ files # <<>> /\ todo = <<>>
          /\ markdown # <<>>
          /\ Len(written) = run - 1
    /\ (pc = "exit" /\ ~ConfigError /\ ~args.list_types /\ files = <<>>) =>
          /\ exit_code = 1
          /\ markdown = <<>>
    /\ exit_code \notin {-1, 0} =>
          /\ pc = "exit"
          /\ markdown = <<>>
          /\ Len(written) = run - 1
    /\ Len(written) = run =>
          /\ exit_code = 0
          /\ written[run].text = markdown /\ markdown # <<>>

\* C5 witness: the traversal listed a directory that holds files, kept none of them,
\* and the run ended with a non-zero exit.
C5_Witness ==
    /\ pc = "exit"
    /\ exit_code = 1
    /\ fs.files # {}
    /\ enumerated # {}
    /\ files = <<>>

\* the document holds the rendered folder tree
HasTreeBlock(text) == \E i \in 1..Len(text) : text[i].kind = "tree"

\* C7: with --no-tree the written document holds no rendered folder tree; without
\* it the tree block is there.
C7_NoTreeOmitsTree ==
    \A i \in 1..Len(written) : HasTreeBlock(written[i].text) <=> ~args.no_tree

\* C10: the export run twice on the same directory with the same configuration
\* and the default output destination collects the same files both times: the
\* document the first run wrote is not an input of the second.
C10_SecondRunCollectsSameFiles ==
    (run > 1 /\ pc = "collected" /\ args.output = <<>>) =>
        /\ Range(files) = Range(prev_files)
        /\ \A i \in 1..Len(written) : written[i].path \notin Range(files)

====
